---- MODULE Spec2Model ----
(***************************************************************************)
(* A model of the note scheduling cache of a judge line                    *)
(* (prpr/src/core/line.rs: JudgeLineCache, JudgeLine::update,              *)
(* JudgeLine::render) and of the Phigros chart importer                    *)
(* (src/parse/pgr.rs).                                                     *)
(*                                                                         *)
(* Note indices are 1-based here: index i of the model is index i-1 of     *)
(* the Rust vector, and "index < notes.len()" reads "index <= Len(notes)". *)
(* Floating-point values are modelled by integers.                         *)
(***************************************************************************)
EXTENDS Integers, Sequences, FiniteSets, TLC

\* ---------------------------------------------------------------- bounds
MaxNotes == 3
MaxTime == 1
HoldEnd == 1

Speeds == {1, 2}
Heights == {0, 1}
Extents == {0, 1}

VARIABLES
    notes,          \* JudgeLine.notes, in the order fixed by JudgeLineCache::new
    judge,          \* judge[i]: Note.judge of notes[i], "Pending" or "Judged"
    time,           \* res.time of the last update
    update_order,   \* JudgeLineCache.update_order
    above_indices,  \* JudgeLineCache.above_indices
    below_indices,  \* JudgeLineCache.below_indices
    panicked,       \* TRUE once an operation indexed notes out of bounds
    last,           \* the operation that produced this state
    updated,        \* the notes Note::update was called on by the last update, in call order
    visited,        \* the notes Note::render was called on by the last render, in call order
    rcfg,           \* the inputs and the decoded RenderConfig of the last render
    pgr,            \* the importer's input: per judge line its bpm and its two note lists
    line_id,        \* the zero-based index of the judge line being parsed
    stage,          \* the importer's position
    outcome,        \* "running", or how parse_phigros ended: "chart", "error", "panic"
    context,        \* the context chain of the returned error, outermost first
    lines,          \* the JudgeLines built so far; the Chart's lines once outcome = "chart"
    cur,            \* the parts of the judge line being parsed that are built so far
    ratio,          \* r, the seconds per tick of the judge line being parsed
    max_time,       \* max_time of parse_phigros
    ev_in,          \* the event or note list handed to the last parse_* call
    ev_out          \* what that call returned

lineVars == <<notes, judge, time, update_order, above_indices, below_indices,
              panicked, last, updated, visited, rcfg>>

parseVars == <<pgr, line_id, stage, outcome, context, lines, cur, ratio, max_time,
               ev_in, ev_out>>

vars == <<lineVars, parseVars>>

\* ------------------------------------------------------------ the notes
\* The notes a line is built from: grouped Click notes with every side,
\* speed and height, and non-grouped Hold notes on either side.  A Hold
\* ends at HoldEnd.
NoteDomain ==
    [plain : {TRUE}, above : BOOLEAN, speed : Speeds, height : Heights,
     kind : {"Click"}, end_time : {0}]
    \cup
    [plain : {FALSE}, above : BOOLEAN, speed : {1}, height : {0},
     kind : {"Hold"}, end_time : {HoldEnd}]

RECURSIVE SeqsUpTo(_, _)
SeqsUpTo(S, n) ==
    IF n = 0 THEN {<<>>}
    ELSE LET shorter == SeqsUpTo(S, n - 1)
         IN  shorter \cup {Append(s, x) : s \in {t \in shorter : Len(t) = n - 1}, x \in S}

RawNotes == SeqsUpTo(NoteDomain, MaxNotes)

\* it.object.translation.1.now(): the importer gives every note the empty
\* (default) y translation, whose value is 0 at every time.
TranslationY(n) == 0

Bit(b) == IF b THEN 1 ELSE 0

\* SortKey without the height: the notes of a run stay in input order.
SortKey_NoHeight(n) == <<Bit(n.plain), Bit(~n.above), n.speed, 0>>

\* The sort key of JudgeLineCache::new.
SortKey(n) == <<Bit(n.plain), Bit(~n.above), n.speed, n.height + TranslationY(n)>>

\* Lexicographic order of two keys (Rust's Ord on tuples).
KeyLess(a, b) ==
    \E k \in 1..4 : a[k] < b[k] /\ \A j \in 1..(k - 1) : a[j] = b[j]

\* One insertion of a stable sort: x goes behind every element whose key is
\* not greater than its own.
InsertByKey(s, x) ==
    LET pos == Cardinality({i \in 1..Len(s) : ~KeyLess(SortKey(x), SortKey(s[i]))})
    IN  SubSeq(s, 1, pos) \o <<x>> \o SubSeq(s, pos + 1, Len(s))

RECURSIVE SortFrom(_, _, _)
SortFrom(raw, k, acc) ==
    IF k > Len(raw) THEN acc ELSE SortFrom(raw, k + 1, InsertByKey(acc, raw[k]))

\* notes.sort_by_key(...) of JudgeLineCache::new (a stable sort).
SortNotes(raw) == SortFrom(raw, 1, <<>>)

\* ------------------------------------------------- JudgeLineCache::reset
\* notes.iter().position(|it| it.plain()).unwrap_or(notes.len())
FirstPlain(ns) ==
    IF \E i \in 1..Len(ns) : ns[i].plain
    THEN CHOOSE i \in 1..Len(ns) : ns[i].plain /\ \A j \in 1..(i - 1) : ~ns[j].plain
    ELSE Len(ns) + 1

\* SkipAbove without the speed test: above runs of different speed merge.
RECURSIVE SkipAbove_AnySpeed(_, _, _)
SkipAbove_AnySpeed(ns, index, speed) ==
    LET next == index + 1
    IN  IF next <= Len(ns) /\ ns[next].above
        THEN SkipAbove_AnySpeed(ns, next, speed)
        ELSE next

\* The inner loop of the first while: the index behind the above run.
RECURSIVE SkipAbove(_, _, _)
SkipAbove(ns, index, speed) ==
    LET next == index + 1
    IN  IF next <= Len(ns) /\ ns[next].above /\ ns[next].speed = speed
        THEN SkipAbove(ns, next, speed)
        ELSE next

\* The inner loop of the second while: the index behind the below run.
RECURSIVE SkipBelow(_, _, _)
SkipBelow(ns, index, speed) ==
    LET next == index + 1
    IN  IF next <= Len(ns) /\ ns[next].speed = speed
        THEN SkipBelow(ns, next, speed)
        ELSE next

\* The first while loop: [index, list] when it ends.
RECURSIVE ResetAbove(_, _, _)
ResetAbove(ns, index, acc) ==
    IF index <= Len(ns) /\ ns[index].above
    THEN ResetAbove(ns, SkipAbove(ns, index, ns[index].speed), Append(acc, index))
    ELSE [index |-> index, list |-> acc]

\* The second while loop.
RECURSIVE ResetBelow(_, _, _)
ResetBelow(ns, index, acc) ==
    IF index # Len(ns) + 1
    THEN ResetBelow(ns, SkipBelow(ns, index, ns[index].speed), Append(acc, index))
    ELSE acc

\* The cache JudgeLineCache::reset leaves behind.
ResetCache(ns) ==
    LET a == ResetAbove(ns, FirstPlain(ns), <<>>)
    IN  [update_order  |-> [i \in 1..Len(ns) |-> i],
         above_indices |-> a.list,
         below_indices |-> ResetBelow(ns, a.index, <<>>)]

NoLine == [height |-> <<>>, notes_above |-> <<>>, notes_below |-> <<>>]

NoCall == [validation |-> "none", verdict |-> "none", kfs |-> <<>>, kfs2 |-> <<>>, notes |-> <<>>]

\* The importer at rest: no chart is being parsed.
ParseIdle ==
    /\ pgr = <<>>
    /\ line_id = 0
    /\ stage = "idle"
    /\ outcome = "running"
    /\ context = <<>>
    /\ lines = <<>>
    /\ cur = NoLine
    /\ ratio = 0
    /\ max_time = 0
    /\ ev_in = <<>>
    /\ ev_out = NoCall

NoRender == [returned |-> TRUE, agg |-> FALSE, height_above |-> 0, height_below |-> 0,
             draw_below |-> TRUE, appear_before |-> -1]

\* JudgeLineCache::new on every note vector of the domain: sort, then reset.
Init ==
    \E raw \in RawNotes :
        LET ns == SortNotes(raw)
            c  == ResetCache(ns)
        IN  /\ notes = ns
            /\ judge = [i \in 1..Len(ns) |-> "Pending"]
            /\ time = 0
            /\ update_order = c.update_order
            /\ above_indices = c.above_indices
            /\ below_indices = c.below_indices
            /\ panicked = FALSE
            /\ last = "new"
            /\ updated = <<>>
            /\ visited = <<>>
            /\ rcfg = NoRender
            /\ ParseIdle

\* JudgeLineCache::reset: rebuilds the three lists, touches nothing else.
Reset ==
    LET c == ResetCache(notes)
    IN  /\ update_order' = c.update_order
        /\ above_indices' = c.above_indices
        /\ below_indices' = c.below_indices
        /\ last' = "reset"
        /\ updated' = <<>>
        /\ visited' = <<>>
        /\ rcfg' = NoRender
        /\ UNCHANGED <<notes, judge, time, panicked>>
        /\ UNCHANGED parseVars

\* The judgement subsystem: one note goes from Pending to Judged.
Judge ==
    \E i \in 1..Len(notes) :
        /\ judge[i] = "Pending"
        /\ judge' = [judge EXCEPT ![i] = "Judged"]
        /\ last' = "judge"
        /\ updated' = <<>>
        /\ visited' = <<>>
        /\ rcfg' = NoRender
        /\ UNCHANGED <<notes, time, update_order, above_indices, below_indices, panicked>>
        /\ UNCHANGED parseVars

\* ------------------------------------------------------ JudgeLine::update
\* Note::dead, read from the specification: a note is live while Pending, or
\* while it is a Hold whose end_time has not yet elapsed.
NoteDead(n, jd, t) ==
    ~(jd = "Pending" \/ (n.kind = "Hold" /\ t < n.end_time))

\* KeepInOrder that drops every judged note, a Hold still held included.
KeepInOrder_PendingOnly(ns, jd, t, id) == jd[id] = "Pending"

\* The closure of update_order.retain: Note::update, then keep unless dead.
KeepInOrder(ns, jd, t, id) == ~NoteDead(ns[id], jd[id], t)

\* self.cache.update_order.retain(...)
RetainOrder(ns, jd, t, order) ==
    LET Keep(id) == KeepInOrder(ns, jd, t, id)
    IN  SelectSeq(order, Keep)

\* AdvanceAbove that keeps the cursor of a run it has scanned to the end.
RECURSIVE AdvanceAbove_KeepsLast(_, _, _)
AdvanceAbove_KeepsLast(ns, jd, index) ==
    IF index < 1 \/ index > Len(ns) THEN -1
    ELSE IF jd[index] = "Judged"
         THEN IF /\ index + 1 <= Len(ns)
                 /\ ns[index + 1].above
                 /\ ns[index + 1].speed = ns[index].speed
              THEN AdvanceAbove_KeepsLast(ns, jd, index + 1)
              ELSE index
         ELSE index

\* AdvanceAbove without the speed test: the cursor walks into the next run.
RECURSIVE AdvanceAbove_AnySpeed(_, _, _)
AdvanceAbove_AnySpeed(ns, jd, index) ==
    IF index < 1 \/ index > Len(ns) THEN -1
    ELSE IF jd[index] = "Judged"
         THEN IF index + 1 <= Len(ns) /\ ns[index + 1].above
              THEN AdvanceAbove_AnySpeed(ns, jd, index + 1)
              ELSE 0
         ELSE index

\* AdvanceAbove that leaves every cursor where reset has put it.
AdvanceAbove_Never(ns, jd, index) ==
    IF index < 1 \/ index > Len(ns) THEN -1 ELSE index

\* AdvanceAbove with an if in place of the while: one step at most.
AdvanceAbove_OneStep(ns, jd, index) ==
    IF index < 1 \/ index > Len(ns) THEN -1
    ELSE IF jd[index] = "Judged"
         THEN IF /\ index + 1 <= Len(ns)
                 /\ ns[index + 1].above
                 /\ ns[index + 1].speed = ns[index].speed
              THEN index + 1
              ELSE 0
         ELSE index

\* The closure of above_indices.retain_mut: the index the cursor ends on,
\* 0 when the closure returns false, -1 when it indexes out of bounds.
RECURSIVE AdvanceAbove(_, _, _)
AdvanceAbove(ns, jd, index) ==
    IF index < 1 \/ index > Len(ns) THEN -1
    ELSE IF jd[index] = "Judged"
         THEN IF /\ index + 1 <= Len(ns)
                 /\ ns[index + 1].above
                 /\ ns[index + 1].speed = ns[index].speed
              THEN AdvanceAbove(ns, jd, index + 1)
              ELSE 0
         ELSE index

\* AdvanceBelow with an if in place of the while: one step at most.
AdvanceBelow_OneStep(ns, jd, index) ==
    IF index < 1 \/ index > Len(ns) THEN -1
    ELSE IF jd[index] = "Judged"
         THEN IF /\ index + 1 <= Len(ns)
                 /\ ns[index + 1].speed = ns[index].speed
              THEN index + 1
              ELSE 0
         ELSE index

\* AdvanceBelow that takes the end of the vector for a note of the run.
RECURSIVE AdvanceBelow_NoBound(_, _, _)
AdvanceBelow_NoBound(ns, jd, index) ==
    IF index < 1 \/ index > Len(ns) THEN -1
    ELSE IF jd[index] = "Judged"
         THEN IF index + 1 > Len(ns) \/ ns[index + 1].speed = ns[index].speed
              THEN AdvanceBelow_NoBound(ns, jd, index + 1)
              ELSE 0
         ELSE index

\* AdvanceBelow that drops a run as soon as the note under its cursor is
\* judged.
AdvanceBelow_DropsJudged(ns, jd, index) ==
    IF index < 1 \/ index > Len(ns) THEN -1
    ELSE IF jd[index] = "Judged" THEN 0
    ELSE index

\* The closure of below_indices.retain_mut.
RECURSIVE AdvanceBelow(_, _, _)
AdvanceBelow(ns, jd, index) ==
    IF index < 1 \/ index > Len(ns) THEN -1
    ELSE IF jd[index] = "Judged"
         THEN IF /\ index + 1 <= Len(ns)
                 /\ ns[index + 1].speed = ns[index].speed
              THEN AdvanceBelow(ns, jd, index + 1)
              ELSE 0
         ELSE index

IsKept(v) == v > 0

\* retain_mut over above_indices: the advanced cursors, dropped ones still 0.
AdvancedAbove(ns, jd, list) == [k \in 1..Len(list) |-> AdvanceAbove(ns, jd, list[k])]

\* retain_mut over below_indices.
AdvancedBelow(ns, jd, list) == [k \in 1..Len(list) |-> AdvanceBelow(ns, jd, list[k])]

\* TRUE iff some index of the list is outside the note vector.
OutOfBounds(ns, list) == \E k \in 1..Len(list) : list[k] < 1 \/ list[k] > Len(ns)

\* TRUE iff some closure call of a retain_mut indexed out of bounds.
Aborted(advanced) == \E k \in 1..Len(advanced) : advanced[k] = -1

\* JudgeLine::update at res.time = t.
Update ==
    \E t \in 0..MaxTime :
        LET a == AdvancedAbove(notes, judge, above_indices)
            b == AdvancedBelow(notes, judge, below_indices)
        IN  /\ ~panicked
            /\ IF OutOfBounds(notes, update_order) \/ Aborted(a) \/ Aborted(b)
               THEN /\ panicked' = TRUE
                    /\ UNCHANGED <<update_order, above_indices, below_indices>>
                    /\ updated' = <<>>
               ELSE /\ panicked' = FALSE
                    /\ updated' = update_order
                    /\ update_order' = RetainOrder(notes, judge, t, update_order)
                    /\ above_indices' = SelectSeq(a, IsKept)
                    /\ below_indices' = SelectSeq(b, IsKept)
            /\ time' = t
            /\ last' = "update"
            /\ visited' = <<>>
            /\ rcfg' = NoRender
            /\ UNCHANGED <<notes, judge>>
            /\ UNCHANGED parseVars

\* ------------------------------------------------------ JudgeLine::render
\* f32::INFINITY, the initial appear_before.
Infinity == 1000000

\* alpha in tenths; 10 is the opaque line.
AlphaTenths == {10, -10}

\* show_below as the importer sets it.
ShowBelow == TRUE

\* self.height.now(): the floor position of a line scrolling at unit rate.
HeightNow(t) == t

\* (-alpha).floor() as u32, for alpha < 0 given in tenths.
AlphaCode(alpha) == (-alpha) \div 10

\* DecodeAlpha without the upper end of the appear-before range.
DecodeAlpha_NoUpperLimit(alpha, pe_alpha_extension) ==
    LET w == AlphaCode(alpha)
        normal == [returned |-> FALSE, draw_below |-> ShowBelow, appear_before |-> Infinity]
    IN  IF alpha >= 0 THEN normal
        ELSE IF ~pe_alpha_extension THEN [normal EXCEPT !.returned = TRUE]
        ELSE IF w = 1 THEN [normal EXCEPT !.returned = TRUE]
        ELSE IF w = 2 THEN [normal EXCEPT !.draw_below = FALSE]
        ELSE IF w >= 100 THEN [normal EXCEPT !.appear_before = w - 100]
        ELSE normal

\* The RenderConfig after the alpha control code is decoded; returned is
\* TRUE when render returns before the note pass.
DecodeAlpha(alpha, pe_alpha_extension) ==
    LET w == AlphaCode(alpha)
        normal == [returned |-> FALSE, draw_below |-> ShowBelow, appear_before |-> Infinity]
    IN  IF alpha >= 0 THEN normal
        ELSE IF ~pe_alpha_extension THEN [normal EXCEPT !.returned = TRUE]
        ELSE IF w = 1 THEN [normal EXCEPT !.returned = TRUE]
        ELSE IF w = 2 THEN [normal EXCEPT !.draw_below = FALSE]
        ELSE IF w >= 100 /\ w < 1000 THEN [normal EXCEPT !.appear_before = w - 100]
        ELSE normal

\* note.height - height + note.object.translation.1.now()
Offset(n, height) == n.height - height + TranslationY(n)

\* self.notes.iter().take_while(|it| !it.plain()).filter(|it| it.above == side)
AlwaysRendered(ns, side) ==
    LET Pick(i) == ns[i].above = side
    IN  SelectSeq([i \in 1..(FirstPlain(ns) - 1) |-> i], Pick)

\* The inner for loop of an above cursor, from note j on.
RECURSIVE ScanAbove(_, _, _, _, _, _)
ScanAbove(ns, j, speed, height, agg, height_above) ==
    IF j > Len(ns) THEN <<>>
    ELSE IF ~ns[j].above \/ speed # ns[j].speed THEN <<>>
    ELSE IF agg /\ Offset(ns[j], height) > height_above THEN <<>>
    ELSE <<j>> \o ScanAbove(ns, j + 1, speed, height, agg, height_above)

\* The inner for loop of a below cursor, from note j on.
RECURSIVE ScanBelow(_, _, _, _, _, _)
ScanBelow(ns, j, speed, height, agg, height_below) ==
    IF j > Len(ns) THEN <<>>
    ELSE IF speed # ns[j].speed THEN <<>>
    ELSE IF agg /\ Offset(ns[j], height) > height_below THEN <<>>
    ELSE <<j>> \o ScanBelow(ns, j + 1, speed, height, agg, height_below)

\* for index in &self.cache.above_indices { ... }, from cursor k of the list on.
RECURSIVE RunsAbove(_, _, _, _, _, _)
RunsAbove(ns, list, k, height, agg, height_above) ==
    IF k > Len(list) THEN <<>>
    ELSE ScanAbove(ns, list[k], ns[list[k]].speed, height, agg, height_above)
         \o RunsAbove(ns, list, k + 1, height, agg, height_above)

\* for index in &self.cache.below_indices { ... }
RECURSIVE RunsBelow(_, _, _, _, _, _)
RunsBelow(ns, list, k, height, agg, height_below) ==
    IF k > Len(list) THEN <<>>
    ELSE ScanBelow(ns, list[k], ns[list[k]].speed, height, agg, height_below)
         \o RunsBelow(ns, list, k + 1, height, agg, height_below)

\* RenderVisit with the run scans ahead of the always-rendered notes.
RenderVisit_RunsFirst(ns, above, below, height, agg, height_above, height_below) ==
    RunsAbove(ns, above, 1, height, agg, height_above)
    \o AlwaysRendered(ns, TRUE)
    \o RunsBelow(ns, below, 1, height, agg, height_below)
    \o AlwaysRendered(ns, FALSE)

\* The note pass of render: the notes Note::render is called on, in order.
RenderVisit(ns, above, below, height, agg, height_above, height_below) ==
    AlwaysRendered(ns, TRUE)
    \o RunsAbove(ns, above, 1, height, agg, height_above)
    \o AlwaysRendered(ns, FALSE)
    \o RunsBelow(ns, below, 1, height, agg, height_below)

\* JudgeLine::render: reads the line, changes nothing of it.
Render ==
    \E alpha \in AlphaTenths, pe \in BOOLEAN :
        LET c == DecodeAlpha(alpha, pe)
        IN  /\ ~panicked
            /\ last \in {"new", "reset", "update"}
            /\ last' = "render"
            /\ updated' = <<>>
            /\ IF c.returned
               THEN /\ rcfg' = NoRender
                    /\ visited' = <<>>
                    /\ UNCHANGED panicked
               ELSE IF OutOfBounds(notes, above_indices) \/ OutOfBounds(notes, below_indices)
               THEN /\ rcfg' = NoRender
                    /\ visited' = <<>>
                    /\ panicked' = TRUE
               ELSE \E agg \in BOOLEAN, ha \in Extents, hb \in Extents :
                    /\ rcfg' = [returned |-> FALSE, agg |-> agg,
                                height_above |-> ha, height_below |-> hb,
                                draw_below |-> c.draw_below,
                                appear_before |-> c.appear_before]
                    /\ visited' = RenderVisit(notes, above_indices, below_indices,
                                              HeightNow(time), agg, ha, hb)
                    /\ UNCHANGED panicked
            /\ UNCHANGED <<notes, judge, time, update_order, above_indices, below_indices>>
            /\ UNCHANGED parseVars

Next == Reset \/ Judge \/ Update \/ Render

Spec == Init /\ [][Next]_vars

\* --------------------------------------- the alpha control code on its own
\* The control codes of the input: the recognised ones, the ends of their
\* ranges and codes in between.
ControlCodes == {0, 1, 2, 3, 50, 99, 100, 101, 500, 999, 1000, 1500, 1999, 2000, 3000}

\* alpha in tenths: every control code with and without a fractional part,
\* and the opaque line.
ControlAlphas == {-(10 * w + f) : w \in ControlCodes, f \in {0, 5}} \cup {10}

\* render has computed alpha and built the RenderConfig of line.rs:183-188.
DecodeInit ==
    /\ notes = <<>>
    /\ judge = <<>>
    /\ time = 0
    /\ update_order = <<>>
    /\ above_indices = <<>>
    /\ below_indices = <<>>
    /\ panicked = FALSE
    /\ last = "config"
    /\ updated = <<>>
    /\ visited = <<>>
    /\ \E alpha \in ControlAlphas, pe \in BOOLEAN :
          rcfg = [alpha |-> alpha, pe_alpha_extension |-> pe, returned |-> FALSE,
                  draw_below |-> ShowBelow, appear_before |-> Infinity]
    /\ ParseIdle

\* if alpha < 0 { ... } of render
Decode ==
    /\ last = "config"
    /\ LET c == DecodeAlpha(rcfg.alpha, rcfg.pe_alpha_extension)
       IN  rcfg' = [rcfg EXCEPT !.returned = c.returned, !.draw_below = c.draw_below,
                                !.appear_before = c.appear_before]
    /\ last' = "decoded"
    /\ UNCHANGED <<notes, judge, time, update_order, above_indices, below_indices,
                   panicked, updated, visited>>
    /\ UNCHANGED parseVars

SpecDecode == DecodeInit /\ [][Decode]_vars

\* ============================================================ importer
\* Times of the importer's output are counted in 64ths of a second, so that
\* r = 60 / bpm / 32 is a whole number for the bpm values used.
OneSecond == 64

\* The end time validate_events wants the last event to exceed.
TimeLimit == 900000000

MaxEvents == 2
MaxLines == 2

Bpms == {60, 120}
EventTimes == {-64, 0, TimeLimit, TimeLimit + 1}
EventValues == {0, 1}

\* let r = 60. / pgr.bpm / 32.
TickRatio(bpm) == ((60 * OneSecond) \div bpm) \div 32

\* value / HEIGHT_RATIO. HEIGHT_RATIO is a constant of core; it stands at 2
\* here, and every height of the model is even.
ScaleHeight(v) == v \div 2

PgrEvent ==
    [start_time : EventTimes, end_time : EventTimes,
     start : EventValues, end : EventValues, start2 : {0}, end2 : {0}]

SpeedEventTimes == {0, 64, TimeLimit, TimeLimit + 64}

PgrSpeedEvent ==
    [start_time : SpeedEventTimes, end_time : SpeedEventTimes,
     value : {0, 1}, floor_position : {0, OneSecond}]

Keyframe(t, v, tween) == [time |-> t, value |-> v, tween |-> tween]

\* ValidateEvents that accepts a last end time equal to the limit.
ValidateEvents_LimitInclusive(events) ==
    IF Len(events) = 0 THEN "panic"
    ELSE IF \E i \in 1..Len(events) : events[i].start_time > events[i].end_time
         THEN "Invalid time range"
    ELSE IF \E i \in 1..(Len(events) - 1) : events[i].end_time # events[i + 1].start_time
         THEN "Events should be contiguous"
    ELSE IF events[Len(events)].end_time < TimeLimit
         THEN "End time is not great enough"
    ELSE "ok"

\* The validate_events macro: "ok", the message it bails with, or "panic"
\* for the empty list, where len() - 1 underflows and last() is None.
ValidateEvents(events) ==
    IF Len(events) = 0 THEN "panic"
    ELSE IF \E i \in 1..Len(events) : events[i].start_time > events[i].end_time
         THEN "Invalid time range"
    ELSE IF \E i \in 1..(Len(events) - 1) : events[i].end_time # events[i + 1].start_time
         THEN "Events should be contiguous"
    ELSE IF events[Len(events)].end_time <= TimeLimit
         THEN "End time is not great enough"
    ELSE "ok"

Failed(v) == [validation |-> v, verdict |-> v, kfs |-> <<>>, kfs2 |-> <<>>, notes |-> <<>>]

Built(kfs, kfs2) ==
    [validation |-> "ok", verdict |-> "ok", kfs |-> kfs, kfs2 |-> kfs2, notes |-> <<>>]

Max2(a, b) == IF a >= b THEN a ELSE b

\* The start and end value of component c of an event: start and end, or
\* start2 and end2.
StartOf(e, c) == IF c = 1 THEN e.start ELSE e.start2

EndOf(e, c) == IF c = 1 THEN e.end ELSE e.end2

\* The for loop of parse_float_events, and of parse_move_events for one
\* component, over events k.. .
RECURSIVE EventKeyframes(_, _, _, _, _)
EventKeyframes(r, events, k, kfs, c) ==
    IF k > Len(events) THEN kfs
    ELSE LET e == events[k]
             opened == IF kfs # <<>> /\ kfs[Len(kfs)].value = StartOf(e, c)
                       THEN kfs
                       ELSE Append(kfs, Keyframe(Max2(e.start_time * r, 0), StartOf(e, c), 2))
         IN  EventKeyframes(r, events, k + 1,
                            Append(opened, Keyframe(e.end_time * r, EndOf(e, c), 2)), c)

\* kfs.pop()
Pop(kfs) == IF kfs = <<>> THEN kfs ELSE SubSeq(kfs, 1, Len(kfs) - 1)

\* parse_float_events
ParseFloatEvents(r, events) ==
    LET v == ValidateEvents(events)
    IN  IF v # "ok" THEN Failed(v)
        ELSE Built(Pop(EventKeyframes(r, events, 1, <<>>, 1)), <<>>)

\* kf.value = -1. + kf.value * 2.
Remap(kfs) == [k \in 1..Len(kfs) |-> [kfs[k] EXCEPT !.value = -1 + kfs[k].value * 2]]

\* parse_move_events
ParseMoveEvents(r, events) ==
    LET v == ValidateEvents(events)
    IN  IF v # "ok" THEN Failed(v)
        ELSE Built(Remap(Pop(EventKeyframes(r, events, 1, <<>>, 1))),
                   Remap(Pop(EventKeyframes(r, events, 1, <<>>, 2))))

\* parse_speed_events; the assert_eq on the first start time panics.
ParseSpeedEvents(r, events, maxTime) ==
    LET v == ValidateEvents(events)
        final == events[Len(events)]
        kfs == [k \in 1..Len(events) |->
                   Keyframe(events[k].start_time * r, events[k].floor_position, 2)]
        all == Append(kfs, Keyframe(maxTime,
                   final.floor_position + (maxTime - final.start_time * r) * final.value, 0))
    IN  IF v # "ok" THEN Failed(v)
        ELSE IF events[1].start_time # 0 THEN [Failed("panic") EXCEPT !.validation = "ok"]
        ELSE Built([k \in 1..Len(all) |-> [all[k] EXCEPT !.value = ScaleHeight(all[k].value)]],
                   <<>>)

\* ParsedNote with the end of a Hold counted from 0, not from its hit time.
ParsedNote_HoldFromStart(r, n) ==
    [kind     |-> CASE n.kind = 1 -> "Click" [] n.kind = 2 -> "Drag"
                    [] n.kind = 3 -> "Hold"  [] n.kind = 4 -> "Flick"
                    [] OTHER -> "Unknown",
     time     |-> n.time * r,
     end_time |-> IF n.kind = 3 THEN n.hold_time * r ELSE 0,
     height   |-> ScaleHeight(n.floor_position)]

\* The Note parse_notes builds of one PgrNote.
ParsedNote(r, n) ==
    [kind     |-> CASE n.kind = 1 -> "Click" [] n.kind = 2 -> "Drag"
                    [] n.kind = 3 -> "Hold"  [] n.kind = 4 -> "Flick"
                    [] OTHER -> "Unknown",
     time     |-> n.time * r,
     end_time |-> IF n.kind = 3 THEN (n.time + n.hold_time) * r ELSE 0,
     height   |-> ScaleHeight(n.floor_position)]

\* ParseNotes that wants strictly increasing times.
ParseNotes_StrictOrder(r, list) ==
    IF list = <<>> THEN [Built(<<>>, <<>>) EXCEPT !.validation = "none"]
    ELSE IF \E i \in 1..(Len(list) - 1) : list[i].time >= list[i + 1].time
         THEN [Failed("Notes are not sorted") EXCEPT !.validation = "none"]
    ELSE IF \E i \in 1..Len(list) : list[i].kind \notin 1..4
         THEN [Failed("Unknown note type") EXCEPT !.validation = "none"]
    ELSE [Built(<<>>, <<>>) EXCEPT !.validation = "none",
                               !.notes = [i \in 1..Len(list) |-> ParsedNote(r, list[i])]]

\* parse_notes
ParseNotes(r, list) ==
    IF list = <<>> THEN [Built(<<>>, <<>>) EXCEPT !.validation = "none"]
    ELSE IF \E i \in 1..(Len(list) - 1) : list[i].time > list[i + 1].time
         THEN [Failed("Notes are not sorted") EXCEPT !.validation = "none"]
    ELSE IF \E i \in 1..Len(list) : list[i].kind \notin 1..4
         THEN [Failed("Unknown note type") EXCEPT !.validation = "none"]
    ELSE [Built(<<>>, <<>>) EXCEPT !.validation = "none",
                               !.notes = [i \in 1..Len(list) |-> ParsedNote(r, list[i])]]

\* ------------------------------------------------ the importer's input
PgrNote(kind, t, hold, floor) ==
    [kind |-> kind, time |-> t, hold_time |-> hold, floor_position |-> floor]

\* The note lists of a judge line: none, a Click and a Hold in time order,
\* two Clicks out of order, a note of an unknown type.
SampleNoteLists ==
    {<<>>,
     <<PgrNote(1, 0, 0, 0), PgrNote(3, 64, 64, OneSecond)>>,
     <<PgrNote(1, 64, 0, OneSecond), PgrNote(1, 0, 0, 0)>>,
     <<PgrNote(5, 0, 0, 0)>>}

PgrJudgeLine == [bpm : Bpms, notes_above : SampleNoteLists, notes_below : SampleNoteLists]

PgrCharts == SeqsUpTo(PgrJudgeLine, MaxLines)

Event(s, e) == [start_time |-> s, end_time |-> e, start |-> 0, end |-> 1, start2 |-> 0, end2 |-> 1]

\* The event lists a judge line is parsed with: none, one and two events that
\* pass, an inverted event, a gap, an end that is not late enough.
SampleEventLists ==
    {<<>>,
     <<Event(0, TimeLimit + 1)>>,
     <<Event(0, 64), Event(64, TimeLimit + 1)>>,
     <<Event(64, 0), Event(0, TimeLimit + 1)>>,
     <<Event(0, 64), Event(0, TimeLimit + 1)>>,
     <<Event(0, TimeLimit)>>}

SpeedEvent(s, e) == [start_time |-> s, end_time |-> e, value |-> 1, floor_position |-> 0]

\* The same for the speed events, and one list that does not start at 0.
SampleSpeedLists ==
    {<<>>,
     <<SpeedEvent(0, TimeLimit + 64)>>,
     <<SpeedEvent(0, 64), SpeedEvent(64, TimeLimit + 64)>>,
     <<SpeedEvent(64, 0), SpeedEvent(0, TimeLimit + 64)>>,
     <<SpeedEvent(0, 64), SpeedEvent(0, TimeLimit + 64)>>,
     <<SpeedEvent(0, TimeLimit)>>,
     <<SpeedEvent(64, TimeLimit + 64)>>}

\* The judge line at rest: no line has been built.
LineIdle ==
    /\ notes = <<>>
    /\ judge = <<>>
    /\ time = 0
    /\ update_order = <<>>
    /\ above_indices = <<>>
    /\ below_indices = <<>>
    /\ panicked = FALSE
    /\ last = "idle"
    /\ updated = <<>>
    /\ visited = <<>>
    /\ rcfg = NoRender

\* ---------------------------------------------------------- parse_phigros
\* parse_phigros is handed a chart: the JSON has been read.
ParseInit ==
    /\ LineIdle
    /\ pgr \in PgrCharts
    /\ line_id = 0
    /\ stage = "start"
    /\ outcome = "running"
    /\ context = <<>>
    /\ lines = <<>>
    /\ cur = NoLine
    /\ ratio = 0
    /\ max_time = 0
    /\ ev_in = <<>>
    /\ ev_out = NoCall

\* The greatest element of a set of numbers, 0 (the default) if it is empty.
MaxOrDefault(S) == IF S = {} THEN 0 ELSE CHOOSE x \in S : \A y \in S : y <= x

\* The greatest note time of a line, in seconds.
LineMaxTime(line) ==
    MaxOrDefault({line.notes_above[i].time : i \in 1..Len(line.notes_above)}
                 \cup {line.notes_below[i].time : i \in 1..Len(line.notes_below)})
    * TickRatio(line.bpm)

\* let max_time = ... + 1., and the first step of the collect over the lines.
ComputeMaxTime ==
    /\ stage = "start"
    /\ max_time' = MaxOrDefault({LineMaxTime(pgr[i]) : i \in 1..Len(pgr)}) + OneSecond
    /\ IF Len(pgr) = 0
       THEN /\ stage' = "done"
            /\ outcome' = "chart"
            /\ ratio' = ratio
       ELSE /\ stage' = "speed"
            /\ outcome' = outcome
            /\ ratio' = TickRatio(pgr[1].bpm)
    /\ UNCHANGED <<pgr, line_id, context, lines, cur, ev_in, ev_out>>
    /\ UNCHANGED lineVars

\* The error parse_phigros returns: the cause in the two contexts.
ErrorChain(part, cause) == <<<<"In judge line #", line_id>>, part, cause>>

\* What a call's result does to the parse: a panic ends it, an Err is
\* returned through the contexts, an Ok goes on at the stage `next`.
Continue(res, part, next, built) ==
    /\ ev_out' = res
    /\ IF res.verdict = "panic"
       THEN /\ outcome' = "panic"
            /\ stage' = "done"
            /\ context' = context
            /\ lines' = <<>>
            /\ cur' = NoLine
       ELSE IF res.verdict # "ok"
       THEN /\ outcome' = "error"
            /\ stage' = "done"
            /\ context' = ErrorChain(part, res.verdict)
            /\ lines' = <<>>
            /\ cur' = NoLine
       ELSE /\ outcome' = outcome
            /\ stage' = next
            /\ context' = context
            /\ lines' = lines
            /\ cur' = built
    /\ UNCHANGED <<pgr, line_id, ratio, max_time>>
    /\ UNCHANGED lineVars

\* parse_judge_line: parse_speed_events(r, pgr.speed_events, max_time)
ParseSpeedStage ==
    /\ stage = "speed"
    /\ \E events \in SampleSpeedLists :
          LET res == ParseSpeedEvents(ratio, events, max_time)
          IN  /\ ev_in' = events
              /\ Continue(res, "Failed to parse speed events", "above",
                          [cur EXCEPT !.height = res.kfs])

\* parse_judge_line: parse_notes(r, pgr.notes_above, &mut height)
ParseNotesAboveStage ==
    /\ stage = "above"
    /\ LET res == ParseNotes(ratio, pgr[line_id + 1].notes_above)
       IN  /\ ev_in' = pgr[line_id + 1].notes_above
           /\ Continue(res, "Failed to parse notes above", "below",
                       [cur EXCEPT !.notes_above = res.notes])

\* parse_judge_line: parse_notes(r, pgr.notes_below, &mut height)
ParseNotesBelowStage ==
    /\ stage = "below"
    /\ LET res == ParseNotes(ratio, pgr[line_id + 1].notes_below)
       IN  /\ ev_in' = pgr[line_id + 1].notes_below
           /\ Continue(res, "Failed to parse notes below", "alpha",
                       [cur EXCEPT !.notes_below = res.notes])

\* parse_judge_line: parse_float_events(r, pgr.alpha_events)
ParseAlphaStage ==
    /\ stage = "alpha"
    /\ \E events \in SampleEventLists :
          /\ ev_in' = events
          /\ Continue(ParseFloatEvents(ratio, events), "Failed to parse alpha events",
                      "rotate", cur)

\* parse_judge_line: parse_float_events(r, pgr.rotate_events)
ParseRotateStage ==
    /\ stage = "rotate"
    /\ \E events \in SampleEventLists :
          /\ ev_in' = events
          /\ Continue(ParseFloatEvents(ratio, events), "Failed to parse rotate events",
                      "move", cur)

\* parse_judge_line: parse_move_events(r, pgr.move_events); its Ok completes
\* the JudgeLine.
ParseMoveStage ==
    /\ stage = "move"
    /\ \E events \in SampleEventLists :
          /\ ev_in' = events
          /\ Continue(ParseMoveEvents(ratio, events), "Failed to parse move events",
                      "line", cur)

\* The collect takes the finished JudgeLine and goes on to the next line, or
\* behind the last line returns the Chart.
CollectLine ==
    /\ stage = "line"
    /\ lines' = Append(lines, [notes_above |-> cur.notes_above,
                               notes_below |-> cur.notes_below])
    /\ cur' = NoLine
    /\ line_id' = line_id + 1
    /\ IF line_id + 1 = Len(pgr)
       THEN /\ stage' = "done"
            /\ outcome' = "chart"
            /\ ratio' = ratio
       ELSE /\ stage' = "speed"
            /\ outcome' = outcome
            /\ ratio' = TickRatio(pgr[line_id + 2].bpm)
    /\ UNCHANGED <<pgr, context, max_time, ev_in, ev_out>>
    /\ UNCHANGED lineVars

ParseNext ==
    \/ ComputeMaxTime
    \/ ParseSpeedStage
    \/ ParseNotesAboveStage
    \/ ParseNotesBelowStage
    \/ ParseAlphaStage
    \/ ParseRotateStage
    \/ ParseMoveStage
    \/ CollectLine

SpecParse == ParseInit /\ [][ParseNext]_vars

\* ------------------------------------------- the event parsers on their own
EventLists == SeqsUpTo(PgrEvent, MaxEvents)

SpeedEventLists == SeqsUpTo(PgrSpeedEvent, MaxEvents)

CallInit ==
    /\ LineIdle
    /\ pgr = <<>>
    /\ line_id = 0
    /\ stage = "call"
    /\ outcome = "running"
    /\ context = <<>>
    /\ lines = <<>>
    /\ cur = NoLine
    /\ ratio \in {TickRatio(bpm) : bpm \in Bpms}
    /\ max_time \in {OneSecond, 2 * OneSecond}
    /\ ev_in = <<>>
    /\ ev_out = NoCall

Returned(name, events, res) ==
    /\ stage' = name
    /\ ev_in' = events
    /\ ev_out' = res
    /\ UNCHANGED <<pgr, line_id, outcome, context, lines, cur, max_time>>
    /\ UNCHANGED lineVars

CallParseFloatEvents ==
    /\ stage = "call"
    /\ \E events \in EventLists :
          /\ Returned("parse_float_events", events, ParseFloatEvents(ratio, events))
          /\ UNCHANGED ratio

CallParseMoveEvents ==
    /\ stage = "call"
    /\ \E events \in EventLists :
          /\ Returned("parse_move_events", events, ParseMoveEvents(ratio, events))
          /\ UNCHANGED ratio

CallParseSpeedEvents ==
    /\ stage = "call"
    /\ \E events \in SpeedEventLists :
          /\ Returned("parse_speed_events", events, ParseSpeedEvents(ratio, events, max_time))
          /\ UNCHANGED ratio

CallNext == CallParseFloatEvents \/ CallParseMoveEvents \/ CallParseSpeedEvents

SpecEvents == CallInit /\ [][CallNext]_vars

\* ------------------------------------------------- parse_notes on its own
MaxNoteList == 2

\* The kind codes of the input: the four known ones and one on either side.
KindCodes == 0..5

PgrNotes ==
    [kind : KindCodes, time : {0, 32}, hold_time : {0, 64},
     floor_position : {0, OneSecond}]

NoteLists == SeqsUpTo(PgrNotes, MaxNoteList)

\* parse_judge_line is handed a judge line with one list of notes.
NotesInit ==
    /\ LineIdle
    /\ \E bpm \in Bpms, list \in NoteLists :
          pgr = <<[bpm |-> bpm, notes_above |-> list, notes_below |-> <<>>]>>
    /\ line_id = 0
    /\ stage = "call"
    /\ outcome = "running"
    /\ context = <<>>
    /\ lines = <<>>
    /\ cur = NoLine
    /\ ratio = 0
    /\ max_time = 0
    /\ ev_in = <<>>
    /\ ev_out = NoCall

\* let r = 60. / pgr.bpm / 32.; parse_notes(r, pgr.notes_above, &mut height)
CallParseNotes ==
    /\ stage = "call"
    /\ pgr # <<>>
    /\ LET r == TickRatio(pgr[1].bpm)
       IN  /\ ratio' = r
           /\ Returned("parse_notes", pgr[1].notes_above, ParseNotes(r, pgr[1].notes_above))

SpecNotes == NotesInit /\ [][CallParseNotes]_vars

\* ------------------------------------------------- runs, stated directly
\* The elements of a sequence.
Range(s) == {s[k] : k \in 1..Len(s)}

StrictlyAscending(s) == \A k \in 1..(Len(s) - 1) : s[k] < s[k + 1]

\* Notes i..j are grouped notes of one side and one scroll speed.
SameRun(ns, i, j) ==
    \A k \in i..j :
        ns[k].plain /\ ns[k].above = ns[i].above /\ ns[k].speed = ns[i].speed

\* The run of grouped note i: the maximal contiguous group around it.
RunOf(ns, i) ==
    {j \in 1..Len(ns) : IF j <= i THEN SameRun(ns, j, i) ELSE SameRun(ns, i, j)}

\* Note i is the first note of a run.
IsRunStart(ns, i) == ns[i].plain /\ (i = 1 \/ ~SameRun(ns, i - 1, i))

RunStarts(ns) == {i \in 1..Len(ns) : IsRunStart(ns, i)}

\* The last note of the run of note i.
RunEnd(ns, i) == CHOOSE j \in RunOf(ns, i) : \A k \in RunOf(ns, i) : k <= j

\* The elements of a set of numbers in ascending order.
RECURSIVE Ascending(_)
Ascending(S) ==
    IF S = {} THEN <<>>
    ELSE LET m == CHOOSE x \in S : \A y \in S : x <= y
         IN  <<m>> \o Ascending(S \ {m})

Cursors == Range(above_indices) \cup Range(below_indices)

AllJudged(S) == \A j \in S : judge[j] = "Judged"

Rendered == last = "render" /\ ~rcfg.returned

\* ------------------------------------------------------------------- C1
C1_Step ==
    \A s \in {i \in 1..Len(notes) : judge[i] = "Judged" /\ IsRunStart(notes, i)} :
        LET run == RunOf(notes, s)
        IN  AllJudged(run) =>
              /\ (last' = "update" /\ ~panicked') => Cursors' \cap run = {}
              /\ (Cursors \cap run = {} /\ last' # "reset") =>
                    /\ Cursors' \cap run = {}
                    /\ Range(visited') \cap run = {}

\* C1: once every note of a run is Judged, the next update leaves no cursor
\* in that run, and until a reset no later update puts a cursor into the run
\* and no render visits a note of it.
C1_Theorem == [][C1_Step]_vars

C1_Witness ==
    /\ Rendered
    /\ visited # <<>>
    /\ \E s \in RunStarts(notes) :
          /\ Cardinality(RunOf(notes, s)) >= 2
          /\ AllJudged(RunOf(notes, s))
          /\ Cursors \cap RunOf(notes, s) = {}

\* ------------------------------------------------------------------- C2
\* C2: right after an update every remaining cursor is on a note that is not
\* Judged, and every note of its run before it is Judged.
C2_Theorem ==
    (last = "update" /\ ~panicked) =>
        \A c \in Cursors :
            /\ judge[c] # "Judged"
            /\ \A j \in RunOf(notes, c) : j < c => judge[j] = "Judged"

C2_Witness ==
    /\ last = "update"
    /\ \E c \in Cursors : \E j \in RunOf(notes, c) : j < c
    /\ \E c \in Cursors : IsRunStart(notes, c)

\* ------------------------------------------------------------------- C3
LiveNow(i) ==
    judge[i] = "Pending" \/ (notes[i].kind = "Hold" /\ time < notes[i].end_time)

C3_Inv ==
    (last = "update" /\ ~panicked) =>
        /\ StrictlyAscending(updated)
        /\ update_order = SelectSeq(updated, LiveNow)

C3_Step ==
    /\ (last' = "update" /\ ~panicked') => updated' = update_order
    /\ last' # "reset" => Range(update_order') \subseteq Range(update_order)

\* C3: an update calls Note::update once on every pending index, in ascending
\* order, and keeps exactly the indices whose note is live afterwards
\* (Pending, or a Hold whose end_time has not elapsed); an index that left the
\* pending list comes back only by reset.
C3_Theorem == []C3_Inv /\ [][C3_Step]_vars

C3_Witness ==
    /\ last = "update"
    /\ \E i \in Range(update_order) : judge[i] = "Judged"
    /\ \E i \in Range(update_order) : judge[i] = "Pending"
    /\ \E i \in Range(updated) : i \notin Range(update_order)

\* ------------------------------------------------------------------- C4
InBounds(list) ==
    /\ \A k \in 1..Len(list) : list[k] >= 1 /\ list[k] <= Len(notes)
    /\ StrictlyAscending(list)

\* C4: every index the cache holds is inside the note vector, the three
\* lists are strictly ascending, and no update or render has indexed the
\* notes out of bounds.
C4_Theorem ==
    /\ ~panicked
    /\ InBounds(update_order)
    /\ InBounds(above_indices)
    /\ InBounds(below_indices)

C4_Witness ==
    /\ Rendered
    /\ Len(notes) >= 3
    /\ \E c \in Cursors :
          /\ c = Len(notes)
          /\ \E j \in RunOf(notes, c) : j < c
          /\ c \in Range(visited)

\* ------------------------------------------------------------------- C5
NoDuplicates(s) == \A k, l \in 1..Len(s) : k # l => s[k] # s[l]

C5_Inv ==
    /\ \A c \in Range(above_indices) : notes[c].plain /\ notes[c].above
    /\ \A c \in Range(below_indices) : notes[c].plain /\ ~notes[c].above
    /\ \A c, d \in Cursors : c # d => d \notin RunOf(notes, c)
    /\ LET made == ResetCache(notes)
           starts == Range(made.above_indices) \cup Range(made.below_indices)
       IN  \A i \in 1..Len(notes) :
               notes[i].plain =>
                   Cardinality({c \in starts : c <= i /\ SameRun(notes, c, i)}) = 1
    /\ Rendered =>
          /\ NoDuplicates(visited)
          /\ \A k \in 1..Len(visited) :
                notes[visited[k]].plain =>
                    \E c \in Cursors : c <= visited[k] /\ SameRun(notes, c, visited[k])

C5_Step ==
    (last' = "update" /\ ~panicked') =>
        /\ \A d \in Range(above_indices') :
              \E c \in Range(above_indices) : c <= d /\ SameRun(notes, c, d)
        /\ \A d \in Range(below_indices') :
              \E c \in Range(below_indices) : c <= d /\ SameRun(notes, c, d)

\* C5: every cursor, every index a cursor is advanced to and every note a
\* render reaches from a cursor has the side and the scroll speed of the
\* start of that cursor's run; the runs reset makes are disjoint contiguous
\* ranges, and no cursor is advanced into another run.
C5_Theorem == []C5_Inv /\ [][C5_Step]_vars

C5_Witness ==
    /\ last = "update"
    /\ \E c \in Cursors :
          /\ \E j \in RunOf(notes, c) : j < c
          /\ RunEnd(notes, c) < Len(notes)
          /\ notes[RunEnd(notes, c) + 1].above = notes[c].above

\* ------------------------------------------------------------------- C6
\* The half-extent render compares note j with.
SideExtent(j) == IF notes[j].above THEN rcfg.height_above ELSE rcfg.height_below

InView(j) == Offset(notes[j], HeightNow(time)) <= SideExtent(j)

\* What the same render visits with aggressive culling off.
FullVisit ==
    RenderVisit(notes, above_indices, below_indices, HeightNow(time), FALSE,
                rcfg.height_above, rcfg.height_below)

\* C6: a render with aggressive culling visits a subset of what the render
\* without it visits, every note it leaves out lies beyond the visible
\* half-extent of its side, and so both draw the same notes in view.
C6_Theorem ==
    (Rendered /\ rcfg.agg) =>
        /\ Range(visited) \subseteq Range(FullVisit)
        /\ \A j \in Range(FullVisit) \ Range(visited) : ~InView(j)
        /\ {j \in Range(visited) : InView(j)} = {j \in Range(FullVisit) : InView(j)}

C6_Witness ==
    /\ Rendered
    /\ rcfg.agg
    /\ \E j \in Range(FullVisit) \ Range(visited) :
          \E i \in Range(visited) : i < j /\ SameRun(notes, i, j)

\* ------------------------------------------------------------------- C7
ExpectedCache(ns) ==
    [update_order  |-> [i \in 1..Len(ns) |-> i],
     above_indices |-> Ascending({i \in RunStarts(ns) : ns[i].above}),
     below_indices |-> Ascending({i \in RunStarts(ns) : ~ns[i].above})]

CacheNow ==
    [update_order |-> update_order, above_indices |-> above_indices,
     below_indices |-> below_indices]

C7_Inv == last \in {"new", "reset"} => CacheNow = ExpectedCache(notes)

C7_Step ==
    /\ notes' = notes
    /\ (last = "reset" /\ last' = "reset") => CacheNow' = CacheNow

\* C7: after construction and after every reset the cache holds all indices
\* in order and one cursor on the first note of every above run and of every
\* below run; reset leaves the notes as they are, and a second reset changes
\* nothing.
C7_Theorem == []C7_Inv /\ [][C7_Step]_vars

C7_Witness ==
    /\ last = "reset"
    /\ \E c \in Range(above_indices) : judge[c] = "Judged"
    /\ \E c \in Range(below_indices) : judge[c] = "Judged"
    /\ Len(above_indices) + Len(below_indices) >= 3

\* ------------------------------------------------------------------- C8
Interval(a, b) == [k \in 1..(b - a + 1) |-> a + k - 1]

\* The first note from cursor c on that aggressive culling stops at, or the
\* index behind the run.
StopOf(c) ==
    LET beyond == {j \in c..RunEnd(notes, c) : rcfg.agg /\ ~InView(j)}
    IN  IF beyond = {} THEN RunEnd(notes, c) + 1
        ELSE CHOOSE j \in beyond : \A k \in beyond : j <= k

RECURSIVE WholeRuns(_, _)
WholeRuns(list, k) ==
    IF k > Len(list) THEN <<>>
    ELSE Interval(list[k], RunEnd(notes, list[k])) \o WholeRuns(list, k + 1)

RECURSIVE CulledRuns(_, _)
CulledRuns(list, k) ==
    IF k > Len(list) THEN <<>>
    ELSE Interval(list[k], StopOf(list[k]) - 1) \o CulledRuns(list, k + 1)

NonGrouped(side) ==
    Ascending({i \in 1..Len(notes) : ~notes[i].plain /\ notes[i].above = side})

\* C8 as stated: every surviving run is visited from its cursor to its end.
C8_Original ==
    Rendered =>
        visited = NonGrouped(TRUE) \o WholeRuns(above_indices, 1)
                  \o NonGrouped(FALSE) \o WholeRuns(below_indices, 1)

\* C8, amended: a render that reaches the note pass visits the above
\* non-grouped notes in order, then every surviving above run from its cursor
\* in cursor-list order, then the below non-grouped notes, then every
\* surviving below run from its cursor; a run is visited to its end, or with
\* aggressive culling up to the first note beyond the visible half-extent.
C8_Theorem ==
    Rendered =>
        visited = NonGrouped(TRUE) \o CulledRuns(above_indices, 1)
                  \o NonGrouped(FALSE) \o CulledRuns(below_indices, 1)

C8_Witness ==
    /\ Rendered
    /\ rcfg.agg
    /\ \E k \in 1..Len(visited) : ~notes[visited[k]].plain
    /\ \E c \in Cursors : c \in Range(visited) /\ StopOf(c) <= RunEnd(notes, c)

\* ------------------------------------------------------------------- C9
Inverted(events) == \E i \in 1..Len(events) : events[i].start_time > events[i].end_time

Gapped(events) ==
    \E i \in 1..(Len(events) - 1) : events[i].end_time # events[i + 1].start_time

EndsEarly(events) == events[Len(events)].end_time <= 900000000

ValidationErrors ==
    {"Invalid time range", "Events should be contiguous", "End time is not great enough"}

\* C9: the validation of a non-empty event list fails with an error if the
\* list holds an inverted event, a gap between neighbours or a last end time
\* of at most 900000000, and accepts every other list.
C9_Theorem ==
    (stage \in {"parse_float_events", "parse_move_events", "parse_speed_events"}
     /\ ev_in # <<>>) =>
        IF Inverted(ev_in) \/ Gapped(ev_in) \/ EndsEarly(ev_in)
        THEN ev_out.validation \in ValidationErrors
        ELSE ev_out.validation = "ok"

C9_Witness ==
    /\ stage = "parse_move_events"
    /\ Len(ev_in) = 2
    /\ ev_in[1].start_time < ev_in[1].end_time
    /\ ev_in[2].end_time = 900000001
    /\ ev_out.validation = "ok"

\* ------------------------------------------------------------------ C10
\* The JudgeLine a judge line of the input gives.
LineOf(line) ==
    [notes_above |-> ParseNotes(TickRatio(line.bpm), line.notes_above).notes,
     notes_below |-> ParseNotes(TickRatio(line.bpm), line.notes_below).notes]

NotesInvalid(list) ==
    \/ \E i \in 1..(Len(list) - 1) : list[i].time > list[i + 1].time
    \/ \E i \in 1..Len(list) : list[i].kind \notin 1..4

EventsInvalid(events) ==
    events # <<>> /\ (Inverted(events) \/ Gapped(events) \/ EndsEarly(events))

\* The error names line line_id, whose earlier lines were all collected, and
\* the list of that line that does not pass.
ErrorNamesFirstInvalid ==
    /\ Len(context) = 3
    /\ context[1] = <<"In judge line #", line_id>>
    /\ line_id < Len(pgr)
    /\ \A j \in 1..line_id :
          ~NotesInvalid(pgr[j].notes_above) /\ ~NotesInvalid(pgr[j].notes_below)
    /\ \/ /\ context[2] = "Failed to parse notes above"
          /\ ev_in = pgr[line_id + 1].notes_above
          /\ NotesInvalid(ev_in)
       \/ /\ context[2] = "Failed to parse notes below"
          /\ ev_in = pgr[line_id + 1].notes_below
          /\ NotesInvalid(ev_in)
          /\ ~NotesInvalid(pgr[line_id + 1].notes_above)
       \/ /\ context[2] \in {"Failed to parse speed events", "Failed to parse alpha events",
                             "Failed to parse rotate events", "Failed to parse move events"}
          /\ EventsInvalid(ev_in)
          /\ context[3] = ev_out.validation

\* C10: parse_phigros ends with a Chart that has one JudgeLine per judge line
\* of the input, in input order, or with an error and no Chart, the error
\* naming the first invalid line and the list of it that failed.
C10_Claim ==
    stage = "done" =>
        \/ /\ outcome = "chart"
           /\ lines = [i \in 1..Len(pgr) |-> LineOf(pgr[i])]
        \/ /\ outcome = "error"
           /\ lines = <<>>
           /\ ErrorNamesFirstInvalid

\* The same of every parse that does not panic.
C10_UnlessPanic == outcome # "panic" => C10_Claim

\* ------------------------------------------------------------------ C11
Unsorted(list) == \E i \in 1..(Len(list) - 1) : list[i].time > list[i + 1].time

UnknownKind(list) == \E i \in 1..Len(list) : list[i].kind \notin {1, 2, 3, 4}

\* C11: parse_notes fails exactly when two neighbours of the list are out
\* of time order ("Notes are not sorted") or a note has a kind code outside
\* 1..4 ("Unknown note type"); the empty list and equal neighbouring times
\* pass, and a failure returns no notes.
C11_Theorem ==
    stage = "parse_notes" =>
        /\ ev_out.verdict \in {"ok", "Notes are not sorted", "Unknown note type"}
        /\ ev_out.verdict # "ok" <=> (Unsorted(ev_in) \/ UnknownKind(ev_in))
        /\ ev_out.verdict = "Notes are not sorted" => Unsorted(ev_in)
        /\ ev_out.verdict = "Unknown note type" => UnknownKind(ev_in)
        /\ ev_out.verdict # "ok" => ev_out.notes = <<>>
        /\ ev_out.verdict = "ok" => Len(ev_out.notes) = Len(ev_in)

C11_Witness ==
    /\ stage = "parse_notes"
    /\ Len(ev_in) = 2
    /\ ev_in[1].time = ev_in[2].time
    /\ ev_in[1].time > 0
    /\ ev_out.verdict = "ok"

\* ------------------------------------------------------------------ C12
KindName(code) ==
    CASE code = 1 -> "Click" [] code = 2 -> "Drag" [] code = 3 -> "Hold" [] code = 4 -> "Flick"

\* 60 / bpm / 32 seconds, in the unit of the output times.
SecondsPerTick(bpm) == (60 * OneSecond) \div (bpm * 32)

\* C12: a successful parse_notes gives one note per input note in input
\* order, with the kind of its code, the hit time raw time * r for
\* r = 60 / bpm / 32, the raw floor position divided by HEIGHT_RATIO, and for
\* a Hold the end time (raw time + hold time) * r.
C12_Theorem ==
    (stage = "parse_notes" /\ ev_out.verdict = "ok") =>
        /\ Len(ev_out.notes) = Len(ev_in)
        /\ \A i \in 1..Len(ev_in) :
              LET raw == ev_in[i]
                  out == ev_out.notes[i]
                  r   == SecondsPerTick(pgr[1].bpm)
              IN  /\ out.kind = KindName(raw.kind)
                  /\ out.time = raw.time * r
                  /\ out.height = ScaleHeight(raw.floor_position)
                  /\ raw.floor_position = 0 => out.height = 0
                  /\ raw.kind = 3 => out.end_time = (raw.time + raw.hold_time) * r

\* A Click at raw time 0 and floor 0 ahead of a Hold that starts later; and
\* at bpm 120 a hold of 64 ticks lasts one second.
C12_Witness ==
    /\ stage = "parse_notes"
    /\ ev_out.verdict = "ok"
    /\ pgr[1].bpm = 120
    /\ Len(ev_in) = 2
    /\ ev_in[1].kind = 1 /\ ev_in[1].time = 0 /\ ev_in[1].floor_position = 0
    /\ ev_out.notes[1].kind = "Click" /\ ev_out.notes[1].height = 0
    /\ ev_in[2].kind = 3 /\ ev_in[2].time = 32 /\ ev_in[2].hold_time = 64
    /\ ev_out.notes[2].end_time - ev_out.notes[2].time = OneSecond

\* ------------------------------------------------------------------ C13
\* floor(-alpha) of an alpha given in tenths.
CodeOf(alpha) == (0 - alpha) \div 10

\* What the control code w stands for; appear_before is in tenths of a
\* second, so (w - 100) / 10 seconds are w - 100 tenths.
CodeMeaning(w) ==
    IF w = 1 THEN [returned |-> TRUE, draw_below |-> TRUE, appear_before |-> Infinity]
    ELSE IF w = 2 THEN [returned |-> FALSE, draw_below |-> FALSE, appear_before |-> Infinity]
    ELSE IF w >= 100 /\ w < 1000
         THEN [returned |-> FALSE, draw_below |-> TRUE, appear_before |-> w - 100]
    ELSE [returned |-> FALSE, draw_below |-> TRUE, appear_before |-> Infinity]

DecodedAs(m) ==
    /\ rcfg.returned = m.returned
    /\ ~m.returned => (rcfg.draw_below = m.draw_below /\ rcfg.appear_before = m.appear_before)

\* C13 as stated: every negative alpha is decoded by its code, whatever the
\* render configuration.
C13_Original ==
    (last = "decoded" /\ rcfg.alpha < 0) => DecodedAs(CodeMeaning(CodeOf(rcfg.alpha)))

\* C13, amended: a negative alpha never fails; with the setting
\* pe_alpha_extension off it hides the notes of the line whatever its code;
\* with the setting on, code 1 hides the notes, code 2 suppresses the notes
\* below, a code w in 100..999 sets the appear-before threshold to
\* (w - 100) / 10, and every other code renders as a non-negative alpha does.
C13_Theorem ==
    last = "decoded" =>
        /\ rcfg.alpha >= 0 => DecodedAs(CodeMeaning(0))
        /\ (rcfg.alpha < 0 /\ ~rcfg.pe_alpha_extension) => rcfg.returned
        /\ (rcfg.alpha < 0 /\ rcfg.pe_alpha_extension) =>
              DecodedAs(CodeMeaning(CodeOf(rcfg.alpha)))

C13_Witness ==
    /\ last = "decoded"
    /\ rcfg.pe_alpha_extension
    /\ rcfg.alpha = -19995
    /\ ~rcfg.returned
    /\ rcfg.appear_before = Infinity

\* ------------------------------------------------------------------ C14
NonDecreasing(kfs) == \A k \in 1..(Len(kfs) - 1) : kfs[k].time <= kfs[k + 1].time

EventsParsed ==
    /\ stage \in {"parse_float_events", "parse_move_events", "parse_speed_events"}
    /\ ev_out.verdict = "ok"

\* C14: the keyframe times of every Timeline that parse_float_events,
\* parse_move_events and parse_speed_events build of an accepted event list
\* are non-decreasing in keyframe order.
C14_Claim == EventsParsed => (NonDecreasing(ev_out.kfs) /\ NonDecreasing(ev_out.kfs2))

\* The same of the lists whose events end at or after time 0 and whose last
\* speed event starts at or before max_time.
C14_InRange ==
    (/\ EventsParsed
     /\ \A i \in 1..Len(ev_in) : ev_in[i].end_time >= 0
     /\ stage = "parse_speed_events" => ev_in[Len(ev_in)].start_time * ratio <= max_time)
    => (NonDecreasing(ev_out.kfs) /\ NonDecreasing(ev_out.kfs2))

\* ------------------------------------------------------------------ C15
SameKeyframe(a, b) == a.time = b.time /\ a.value = b.value

NoRepeat(kfs) == \A k \in 1..(Len(kfs) - 1) : ~SameKeyframe(kfs[k], kfs[k + 1])

\* The events behind the first whose start value is not the end value of
\* the event before them: the breakpoints where the value jumps.
Jumps(events, c) ==
    {k \in 2..Len(events) : StartOf(events[k], c) # EndOf(events[k - 1], c)}

FloatEventsParsed ==
    stage \in {"parse_float_events", "parse_move_events"} /\ ev_out.verdict = "ok"

\* The number of keyframes: one per breakpoint, and one more per jump.
C15_Count ==
    FloatEventsParsed =>
        /\ Len(ev_out.kfs) = Len(ev_in) + Cardinality(Jumps(ev_in, 1))
        /\ Len(ev_out.kfs) >= Len(ev_in) /\ Len(ev_out.kfs) <= 2 * Len(ev_in) - 1
        /\ stage = "parse_move_events" =>
              Len(ev_out.kfs2) = Len(ev_in) + Cardinality(Jumps(ev_in, 2))

\* C15: a Timeline built of n accepted events has between n and 2n - 1
\* keyframes, one per breakpoint and a second one only where the value
\* jumps, and no two neighbouring keyframes of it have the same time and the
\* same value.
C15_Claim ==
    /\ C15_Count
    /\ FloatEventsParsed => (NoRepeat(ev_out.kfs) /\ NoRepeat(ev_out.kfs2))

\* ------------------------------------------------------------------ C16
\* The notes built so far: those of the collected lines and of the line
\* being parsed.
BuiltNotes ==
    UNION {Range(lines[i].notes_above) \cup Range(lines[i].notes_below) : i \in 1..Len(lines)}
    \cup Range(cur.notes_above) \cup Range(cur.notes_below)

\* The floor-position Timeline of the line being parsed ends at max_time.
TerminalAtMaxTime ==
    stage \in {"above", "below", "alpha", "rotate", "move", "line"} =>
        /\ cur.height # <<>>
        /\ cur.height[Len(cur.height)].time = max_time

\* The terminal keyframe is at the global maximum time and no note is hit
\* after it.
C16_HitTimes ==
    /\ TerminalAtMaxTime
    /\ \A n \in BuiltNotes : n.time <= max_time

\* C16: the floor-position Timeline of every line ends with a keyframe at
\* the global maximum time, and every hit time and every end time of a Hold
\* is at most that time.
C16_Claim ==
    /\ C16_HitTimes
    /\ \A n \in BuiltNotes : n.kind = "Hold" => n.end_time <= max_time

\* ------------------------------------------------------------------ C20
\* C20: the importer ends only by returning a Chart or an error: no parse
\* panics.
C20_Claim ==
    /\ outcome \in {"running", "chart", "error"}
    /\ ev_out.verdict # "panic"

\* No parse panics on a chart whose event lists are all non-empty and whose
\* speed events start at 0.
C20_UnlessEmptyOrLate ==
    ev_out.verdict = "panic" =>
        \/ ev_in = <<>>
        \/ stage = "done" /\ cur = NoLine /\ ev_in[1].start_time # 0

\* ------------------------------------------------------------------ C17
\* A render that reaches the note pass right after an update.
RenderAfterUpdate == last = "update" /\ ~panicked /\ last' = "render" /\ ~rcfg'.returned

\* C17 as stated: the scans of a render that follows an update visit no
\* Judged note.
C17_Original ==
    [][RenderAfterUpdate =>
          \A k \in Range(visited') : notes[k].plain => judge[k] # "Judged"]_vars

C17_Step ==
    RenderAfterUpdate =>
        /\ \A c \in Cursors :
              /\ judge[c] # "Judged"
              /\ \A j \in RunOf(notes, c) :
                    j < c => (judge[j] = "Judged" /\ j \notin Range(visited'))
        /\ \A k \in Range(visited') :
              (notes[k].plain /\ judge[k] = "Judged") =>
                  \E c \in Cursors : c < k /\ SameRun(notes, c, k) /\ judge[c] # "Judged"

\* C17, amended: in a render that follows an update, the scan of a run
\* starts at the first note of the run that is not Judged and visits none of
\* the Judged notes before it; a Judged note it does visit lies behind the
\* cursor, judged ahead of a note of its run that is not.
C17_Theorem == [][C17_Step]_vars

C17_Witness ==
    /\ Rendered
    /\ \E c \in Cursors :
          /\ c > 1 /\ c < Len(notes)
          /\ SameRun(notes, c - 1, c + 1)
          /\ judge[c - 1] = "Judged" /\ c - 1 \notin Range(visited)
          /\ judge[c + 1] = "Judged" /\ c + 1 \in Range(visited)

\* ------------------------------------------------------------------ C18
\* The cursor lists reset and one cursor advance make of the notes and
\* their judge statuses.
Recomputed ==
    LET made == ResetCache(notes)
    IN  [above_indices |-> SelectSeq(AdvancedAbove(notes, judge, made.above_indices), IsKept),
         below_indices |-> SelectSeq(AdvancedBelow(notes, judge, made.below_indices), IsKept)]

\* C18: right after an update the two cursor lists are those that reset
\* followed by one cursor advance gives for the same notes and judge
\* statuses.
C18_Theorem ==
    (last = "update" /\ ~panicked) =>
        /\ above_indices = Recomputed.above_indices
        /\ below_indices = Recomputed.below_indices

C18_Witness ==
    /\ last = "update"
    /\ ~panicked
    /\ \E c \in Range(above_indices) :
          c > 1 /\ SameRun(notes, c - 1, c) /\ judge[c - 1] = "Judged"
    /\ \E s \in RunStarts(notes) : AllJudged(RunOf(notes, s))

\* ------------------------------------------------------------------ C19
\* The surviving cursors whose scan range holds note i.
CursorsOver(i) == {c \in Cursors : c <= i /\ SameRun(notes, c, i)}

\* C19: a render without aggressive culling visits no note twice, visits
\* every non-grouped note, and every grouped note that is not Judged is in
\* the scan range of exactly one surviving cursor and is visited.
C19_Theorem ==
    (Rendered /\ ~rcfg.agg) =>
        /\ NoDuplicates(visited)
        /\ \A i \in 1..Len(notes) :
              /\ ~notes[i].plain => i \in Range(visited)
              /\ (notes[i].plain /\ judge[i] # "Judged") =>
                    (Cardinality(CursorsOver(i)) = 1 /\ i \in Range(visited))

C19_Witness ==
    /\ Rendered
    /\ ~rcfg.agg
    /\ \E i \in 1..Len(notes) : ~notes[i].plain /\ judge[i] = "Judged"
    /\ \E c \in Cursors : ~IsRunStart(notes, c) /\ c \in Range(visited)
====
